---- MODULE Spec2Model ----
(***************************************************************************)
(* Interaction response lifecycle of mini-interaction.                     *)
(*                                                                         *)
(* One facade (user context menu, message context menu, message component  *)
(* or modal submit) is created over one raw interaction; the handler then  *)
(* calls its helper methods in any order.  JavaScript values are modelled  *)
(* as follows: an object is a record (the empty object is <<>>), a missing *)
(* argument or property is Undefined, a number is Num(n), null is Null, a  *)
(* string that the code tests or returns is Str(s), an array is Arr(seq).  *)
(***************************************************************************)
EXTENDS Integers, Sequences, FiniteSets, TLC

VARIABLES
    kind,               \* which factory built the facade
    helpers,            \* modal submit: which optional callbacks were supplied
    capturedResponse,   \* let capturedResponse: APIInteractionResponse | null
    isDeferred,         \* let isDeferred (modal submit facade only)
    onAckCalls,         \* responses handed to helpers.onAck, in order
    sendFollowUpCalls,  \* invocations of helpers.sendFollowUp, in order
    calls,              \* history: one record per helper call the handler made
    observed,           \* what the latest getResponse() returned
    interaction,        \* the raw payload the facade was created over
    query,              \* the latest resolver query and what it returned
    button,             \* a ButtonBuilder: its private data and latest toJSON()
    db                  \* a MiniDatabase, its collection and its running calls

vars == <<kind, helpers, capturedResponse, isDeferred, onAckCalls,
          sendFollowUpCalls, calls, observed, interaction, query, button, db>>

\* the closure state of a facade and the histories of its calls
lifecycleVars == <<kind, helpers, capturedResponse, isDeferred, onAckCalls,
                   sendFollowUpCalls, calls, observed>>

-----------------------------------------------------------------------------
(* Bounds *)

\* how many helper calls the handler makes on one facade
MaxCalls == 3

\* how many top-level components a submitted modal carries
MaxTop == 2

\* how many label wrappers are nested around one submitted leaf
MaxDepth == 3

\* how many setters are called on one ButtonBuilder
MaxSetterCalls == 3

\* how many calls are issued on one MiniDatabase
MaxOps == 3

-----------------------------------------------------------------------------
(* JavaScript values *)

Undefined == [tag |-> "undefined"]
Null == [tag |-> "null"]
Unread == [tag |-> "unread"]
Num(n) == [num |-> n]
Str(s) == [str |-> s]
Arr(s) == [arr |-> s]
EmptyObject == <<>>

\* JavaScript truthiness of the values used here: undefined, null, 0 and the
\* empty string are falsy; every object, every array (the empty one too),
\* every non-zero number and every non-empty string is truthy.
Truthy(v) == v # Undefined /\ v # Null /\ v # Num(0) /\ v # Str("")

\* typeof v === "string"
IsString(v) == "str" \in DOMAIN v

\* Array.isArray(v)
IsArray(v) == "arr" \in DOMAIN v

\* a[i] for a zero-based index i
At(a, i) == IF i + 1 \in DOMAIN a.arr THEN a.arr[i + 1] ELSE Undefined

\* o.f, and o?.f when o may be undefined
Get(o, f) == IF o # Undefined /\ f \in DOMAIN o THEN o[f] ELSE Undefined

\* { ...o, f: v }
With(o, f, v) == [g \in DOMAIN o \cup {f} |-> IF g = f THEN v ELSE o[g]]

\* const { f, ...rest } = o
Without(o, f) == [g \in DOMAIN o \ {f} |-> o[g]]

Ephemeral == 64

\* interaction.token of the raw payload
Token == "token"

FacadeKinds == {"userContextMenu", "messageContextMenu", "messageComponent", "modalSubmit"}

\* payloads the handler passes to reply / update
MessageDataInputs ==
    { Undefined,
      EmptyObject,
      [content |-> "x"],
      [content |-> "y", flags |-> Num(Ephemeral)] }

\* options the handler passes to deferReply
DeferReplyInputs ==
    { Undefined,
      [flags |-> Num(0)],
      [flags |-> Num(Ephemeral)] }

\* payloads the handler passes to editReply (data is optional there)
EditReplyInputs ==
    { Undefined,
      [content |-> "x"] }

-----------------------------------------------------------------------------
(* interactionMessageHelpers *)

normaliseMessageFlags(flags) ==
    IF flags = Undefined THEN Undefined ELSE flags

normaliseInteractionMessageData(data) ==
    IF ~Truthy(data) THEN Undefined
    ELSE IF Get(data, "flags") = Undefined THEN data
    ELSE LET flags == data.flags
             rest == Without(data, "flags")
             normalisedFlags == normaliseMessageFlags(flags)
         IN IF normalisedFlags = flags THEN data
            ELSE With(rest, "flags", normalisedFlags)

-----------------------------------------------------------------------------
(* Responses *)

ChannelMessageWithSource(data) ==
    [type |-> "ChannelMessageWithSource", data |-> data]

\* deferReply of the context menu facades: data: flags ? { flags } : undefined
ContextMenuDeferredResponse(flags) ==
    [type |-> "DeferredChannelMessageWithSource",
     data |-> IF Truthy(flags) THEN [flags |-> flags] ELSE Undefined]

\* deferReply of the component and modal submit facades
DeferredResponse(flags) ==
    IF flags # Undefined
    THEN [type |-> "DeferredChannelMessageWithSource", data |-> [flags |-> flags]]
    ELSE [type |-> "DeferredChannelMessageWithSource"]

\* mutant: the data field is always written, undefined when omitted
UpdateMessageResponse_AlwaysData(normalisedData) ==
    [type |-> "UpdateMessage", data |-> normalisedData]

UpdateMessageResponse(normalisedData) ==
    IF Truthy(normalisedData)
    THEN [type |-> "UpdateMessage", data |-> normalisedData]
    ELSE [type |-> "UpdateMessage"]

\* mutant: deferUpdate answers with the UpdateMessage code
DeferredMessageUpdateResponse_WrongType == [type |-> "UpdateMessage"]

DeferredMessageUpdateResponse == [type |-> "DeferredMessageUpdate"]

ModalResponse(modalData) == [type |-> "Modal", data |-> modalData]

-----------------------------------------------------------------------------
(* History of the handler's calls *)

\* outcome: "returned" (a synchronous return, or an async function that ran to
\* its end without suspending), "threw" (a synchronous throw), "pending" (an
\* async call suspended in await), "fulfilled" / "rejected" (its promise
\* settled).  error names the failure; response is the response the call
\* built and returns (Null when it failed before building one).
Call(method, arg, outcome, error, response) ==
    [method |-> method, arg |-> arg, outcome |-> outcome, error |-> error,
     response |-> response]

CanCall == Len(calls) < MaxCalls

NoHelpers == [onAck |-> FALSE, sendFollowUp |-> FALSE]

-----------------------------------------------------------------------------
(* Submitted modal payloads *)

\* a submitted text input, a submitted select menu, and the two containers
\* of a modal: an action row (children in .components) and a label (one
\* child in .component)
TextInput(customId, value) == [custom_id |-> customId, value |-> Str(value)]
SelectMenu(customId, values) == [custom_id |-> customId, values |-> Arr(values)]
ActionRow(children) == [components |-> Arr(children)]
Label(child) == [component |-> child]

\* leaves with the identifier that is queried: an empty and a filled text
\* field, an empty and a filled selection
QueriedLeaves ==
    {TextInput("a", ""), TextInput("a", "r1"),
     SelectMenu("a", <<>>), SelectMenu("a", <<"r1", "r2">>)}

Leaves == QueriedLeaves \cup {TextInput("b", "r2")}

\* leaves that also occur under one more label wrapper, and as the second
\* child of an action row
WrappedLeaves == {TextInput("a", "r1"), SelectMenu("a", <<"r1", "r2">>)}

TopLevelInputs ==
    {ActionRow(<<>>)}
    \cup {ActionRow(<<l>>) : l \in Leaves}
    \cup {ActionRow(<<Label(l)>>) : l \in WrappedLeaves}
    \cup {ActionRow(<<p[1], p[2]>>) :
              p \in {q \in QueriedLeaves \X WrappedLeaves : q[1] # q[2]}}
    \cup {Label(l) : l \in Leaves}
    \cup {Label(Label(l)) : l \in WrappedLeaves}

\* interaction.data.components
ComponentsInputs ==
    UNION {[1..n -> TopLevelInputs] : n \in 0..MaxTop}

RoleEntity(id) == [id |-> id, name |-> "role"]
UserEntity(id) == [id |-> id, username |-> "user"]
MemberEntity(id) == [nick |-> "member"]
ChannelEntity(id) == [id |-> id, name |-> "channel"]
AttachmentEntity(id) == [id |-> id, filename |-> "file"]

\* interaction.data.resolved when Discord sent one: r1 is a known role, user
\* (with a member entry) and attachment, r2 a known user (without a member
\* entry) and channel
Resolved ==
    [roles |-> [r1 |-> RoleEntity("r1")],
     users |-> [r1 |-> UserEntity("r1"), r2 |-> UserEntity("r2")],
     members |-> [r1 |-> MemberEntity("r1")],
     channels |-> [r2 |-> ChannelEntity("r2")],
     attachments |-> [r1 |-> AttachmentEntity("r1")]]

ModalSubmitData(components) == [components |-> Arr(components)]

\* raw modal submit payloads, with and without data.resolved
ModalSubmitInputs ==
    {[token |-> Token, data |-> d] :
        d \in {ModalSubmitData(c) : c \in ComponentsInputs}
               \cup {With(ModalSubmitData(c), "resolved", Resolved) : c \in ComponentsInputs}}

\* the payload of the facade whose response lifecycle is followed
SubmittedModal ==
    [token |-> Token,
     data |-> ModalSubmitData(<<ActionRow(<<TextInput("a", "r1")>>)>>)]

\* leaf wrapped in k label wrappers
RECURSIVE Wrap(_, _)
Wrap(k, leaf) == IF k = 0 THEN leaf ELSE Label(Wrap(k - 1, leaf))

\* submissions of one leaf under nested label wrappers, the outermost
\* wrapper directly at top level or inside an action row
NestedInputs ==
    {<<Wrap(k, l)>> : k \in 1..MaxDepth, l \in Leaves}
    \cup {<<ActionRow(<<Wrap(k, l)>>)>> : k \in 1..MaxDepth, l \in Leaves}

CustomIdInputs == {"a", "missing"}

NoQuery == [tag |-> "none"]

\* no ButtonBuilder and no MiniDatabase has been created
NoButton == [tag |-> "none"]
NoDatabase == [tag |-> "none"]

-----------------------------------------------------------------------------
Init ==
    /\ kind \in FacadeKinds
    /\ helpers \in [onAck : BOOLEAN, sendFollowUp : BOOLEAN]
    /\ (kind # "modalSubmit" => helpers = NoHelpers)
    /\ capturedResponse = Null
    /\ isDeferred = FALSE
    /\ onAckCalls = <<>>
    /\ sendFollowUpCalls = <<>>
    /\ calls = <<>>
    /\ observed = Unread
    /\ interaction = SubmittedModal
    /\ query = NoQuery
    /\ button = NoButton
    /\ db = NoDatabase

\* a modal submit facade over any submitted payload, before its first call
InitResolver ==
    /\ kind = "modalSubmit"
    /\ helpers = NoHelpers
    /\ capturedResponse = Null
    /\ isDeferred = FALSE
    /\ onAckCalls = <<>>
    /\ sendFollowUpCalls = <<>>
    /\ calls = <<>>
    /\ observed = Unread
    /\ interaction \in ModalSubmitInputs
    /\ query = NoQuery
    /\ button = NoButton
    /\ db = NoDatabase

\* a modal submit facade over a submission of one nested leaf
InitNesting ==
    /\ kind = "modalSubmit"
    /\ helpers = NoHelpers
    /\ capturedResponse = Null
    /\ isDeferred = FALSE
    /\ onAckCalls = <<>>
    /\ sendFollowUpCalls = <<>>
    /\ calls = <<>>
    /\ observed = Unread
    /\ interaction \in {[token |-> Token, data |-> ModalSubmitData(c)] : c \in NestedInputs}
    /\ query = NoQuery
    /\ button = NoButton
    /\ db = NoDatabase

-----------------------------------------------------------------------------
(* ModalBuilder *)

\* payloads the handler passes to showModal: a finished payload, a plain
\* object in the builder's camel-case seed shape, and ModalBuilder instances
\* (an object whose toJSON closes over the builder's private fields)
ModalInputs ==
    { [custom_id |-> "m1", title |-> "T", components |-> <<"row">>],
      [customId |-> "m1", title |-> "T", components |-> <<"row">>],
      [toJSON |-> [customId |-> "m1", title |-> "T", components |-> <<"row">>]],
      [toJSON |-> [customId |-> "m1", components |-> <<"row">>]] }

\* !this.f for a string field: absent or ""
Missing(b, f) == f \notin DOMAIN b \/ b[f] = ""

\* mutant: toJSON emits the builder's own field names
ModalBuilder_toJSON_CamelCase(b) ==
    IF Missing(b, "customId") THEN [error |-> "custom id is required"]
    ELSE IF Missing(b, "title") THEN [error |-> "title is required"]
    ELSE [value |-> b]

\* ModalBuilder.toJSON(): the payload, or the error it throws
ModalBuilder_toJSON(b) ==
    IF Missing(b, "customId") THEN [error |-> "custom id is required"]
    ELSE IF Missing(b, "title") THEN [error |-> "title is required"]
    ELSE IF Len(b.components) = 0 THEN [error |-> "at least one component is required"]
    ELSE IF Len(b.components) > 5 THEN [error |-> "no more than 5 components"]
    ELSE [value |-> [custom_id |-> b.customId, title |-> b.title,
                     components |-> b.components]]

\* typeof data === "object" && "toJSON" in data ? data.toJSON() : data
ResolveModalData(data) ==
    IF "toJSON" \in DOMAIN data THEN ModalBuilder_toJSON(data.toJSON)
    ELSE [value |-> data]

-----------------------------------------------------------------------------
(* createUserContextMenuInteraction / createMessageContextMenuInteraction *)

ContextMenuReply(k, data) ==
    /\ kind = k
    /\ CanCall
    /\ LET normalised == normaliseInteractionMessageData(data)
       IN IF ~Truthy(normalised)
          THEN /\ calls' = Append(calls, Call("reply", data, "threw", "EmptyPayload", Null))
               /\ UNCHANGED capturedResponse
          ELSE LET response == ChannelMessageWithSource(normalised)
               IN /\ capturedResponse' = response
                  /\ calls' = Append(calls, Call("reply", data, "returned", "", response))
    /\ UNCHANGED <<kind, helpers, isDeferred, onAckCalls, sendFollowUpCalls, observed>>

ContextMenuDeferReply(k, options) ==
    /\ kind = k
    /\ CanCall
    /\ LET opts == IF options = Undefined THEN EmptyObject ELSE options
           flags == normaliseMessageFlags(Get(opts, "flags"))
           response == ContextMenuDeferredResponse(flags)
       IN /\ capturedResponse' = response
          /\ calls' = Append(calls, Call("deferReply", options, "returned", "", response))
    /\ UNCHANGED <<kind, helpers, isDeferred, onAckCalls, sendFollowUpCalls, observed>>

ContextMenuShowModal(k, data) ==
    /\ kind = k
    /\ CanCall
    /\ LET modalData == ResolveModalData(data)
       IN IF "error" \in DOMAIN modalData
          THEN /\ calls' = Append(calls, Call("showModal", data, "threw", modalData.error, Null))
               /\ UNCHANGED capturedResponse
          ELSE LET response == ModalResponse(modalData.value)
               IN /\ capturedResponse' = response
                  /\ calls' = Append(calls, Call("showModal", data, "returned", "", response))
    /\ UNCHANGED <<kind, helpers, isDeferred, onAckCalls, sendFollowUpCalls, observed>>

UserContextMenu_reply(data) == ContextMenuReply("userContextMenu", data)
UserContextMenu_deferReply(options) == ContextMenuDeferReply("userContextMenu", options)
UserContextMenu_showModal(data) == ContextMenuShowModal("userContextMenu", data)

MessageContextMenu_reply(data) == ContextMenuReply("messageContextMenu", data)
MessageContextMenu_deferReply(options) == ContextMenuDeferReply("messageContextMenu", options)
MessageContextMenu_showModal(data) == ContextMenuShowModal("messageContextMenu", data)

-----------------------------------------------------------------------------
(* createMessageComponentInteraction *)

\* captureResponse of the component and modal submit facades
\* mutant: only the first response is kept
captureResponse_FirstWins(response) ==
    capturedResponse' = IF capturedResponse = Null THEN response ELSE capturedResponse

captureResponse(response) == capturedResponse' = response

\* mutant: the response is captured before the payload is checked
MessageComponent_reply_CapturesFirst(data) ==
    /\ kind = "messageComponent"
    /\ CanCall
    /\ LET normalisedData == normaliseInteractionMessageData(data)
           response == ChannelMessageWithSource(normalisedData)
       IN /\ captureResponse(response)
          /\ IF ~Truthy(normalisedData)
             THEN calls' = Append(calls, Call("reply", data, "threw", "EmptyPayload", Null))
             ELSE calls' = Append(calls, Call("reply", data, "returned", "", response))
    /\ UNCHANGED <<kind, helpers, isDeferred, onAckCalls, sendFollowUpCalls, observed>>

MessageComponent_reply(data) ==
    /\ kind = "messageComponent"
    /\ CanCall
    /\ LET normalisedData == normaliseInteractionMessageData(data)
       IN IF ~Truthy(normalisedData)
          THEN /\ calls' = Append(calls, Call("reply", data, "threw", "EmptyPayload", Null))
               /\ UNCHANGED capturedResponse
          ELSE LET response == ChannelMessageWithSource(normalisedData)
               IN /\ captureResponse(response)
                  /\ calls' = Append(calls, Call("reply", data, "returned", "", response))
    /\ UNCHANGED <<kind, helpers, isDeferred, onAckCalls, sendFollowUpCalls, observed>>

MessageComponent_deferReply(options) ==
    /\ kind = "messageComponent"
    /\ CanCall
    /\ LET flags == normaliseMessageFlags(Get(options, "flags"))
           response == DeferredResponse(flags)
       IN /\ captureResponse(response)
          /\ calls' = Append(calls, Call("deferReply", options, "returned", "", response))
    /\ UNCHANGED <<kind, helpers, isDeferred, onAckCalls, sendFollowUpCalls, observed>>

MessageComponent_update(data) ==
    /\ kind = "messageComponent"
    /\ CanCall
    /\ LET normalisedData == normaliseInteractionMessageData(data)
           response == UpdateMessageResponse(normalisedData)
       IN /\ captureResponse(response)
          /\ calls' = Append(calls, Call("update", data, "returned", "", response))
    /\ UNCHANGED <<kind, helpers, isDeferred, onAckCalls, sendFollowUpCalls, observed>>

MessageComponent_deferUpdate ==
    /\ kind = "messageComponent"
    /\ CanCall
    /\ LET response == DeferredMessageUpdateResponse
       IN /\ captureResponse(response)
          /\ calls' = Append(calls, Call("deferUpdate", Undefined, "returned", "", response))
    /\ UNCHANGED <<kind, helpers, isDeferred, onAckCalls, sendFollowUpCalls, observed>>

-----------------------------------------------------------------------------
(* createModalSubmitInteraction *)

\* helpers?.onAck?.(response), called by the call now being appended to the
\* history
\* seq is the position of the invocation among all invocations of the two
\* helpers
onAck(response) ==
    onAckCalls' = IF helpers.onAck
                  THEN Append(onAckCalls,
                         [call |-> Len(calls) + 1, response |-> response,
                          seq |-> Len(onAckCalls) + Len(sendFollowUpCalls) + 1])
                  ELSE onAckCalls

\* helpers.sendFollowUp(interaction.token, response, '@original'), called by
\* the call now being appended to the history; settled is the state of the
\* promise it returned
sendFollowUp(response) ==
    sendFollowUpCalls' = Append(sendFollowUpCalls,
        [call |-> Len(calls) + 1, token |-> Token, response |-> response,
         messageId |-> "@original", settled |-> "pending",
         seq |-> Len(onAckCalls) + Len(sendFollowUpCalls) + 1])

\* mutant: reply awaits the follow-up helper whenever one was supplied
ModalSubmit_replyUsesFollowUp_Always == helpers.sendFollowUp

\* if (isDeferred && helpers?.sendFollowUp)
ModalSubmit_replyUsesFollowUp == isDeferred /\ helpers.sendFollowUp

\* mutant: editReply copies the condition of reply
ModalSubmit_editReplyUsesFollowUp_WhenDeferred == isDeferred /\ helpers.sendFollowUp

\* if (helpers?.sendFollowUp)
ModalSubmit_editReplyUsesFollowUp == helpers.sendFollowUp

\* mutant: a reply that finalises a deferred response clears the flag
ModalSubmit_reply_ClearsDeferred(data) ==
    /\ kind = "modalSubmit"
    /\ CanCall
    /\ LET normalisedData == normaliseInteractionMessageData(data)
       IN IF ~Truthy(normalisedData)
          THEN /\ calls' = Append(calls, Call("reply", data, "rejected", "EmptyPayload", Null))
               /\ UNCHANGED <<capturedResponse, isDeferred, onAckCalls, sendFollowUpCalls>>
          ELSE LET response == ChannelMessageWithSource(normalisedData)
               IN /\ captureResponse(response)
                  /\ IF ModalSubmit_replyUsesFollowUp
                     THEN /\ sendFollowUp(response)
                          /\ isDeferred' = FALSE
                          /\ calls' = Append(calls, Call("reply", data, "pending", "", response))
                          /\ UNCHANGED onAckCalls
                     ELSE /\ onAck(response)
                          /\ calls' = Append(calls, Call("reply", data, "returned", "", response))
                          /\ UNCHANGED <<sendFollowUpCalls, isDeferred>>
    /\ UNCHANGED <<kind, helpers, observed>>

\* reply is an async function: its throw rejects the promise it returns, and
\* await suspends it until the promise of sendFollowUp settles
ModalSubmit_reply(data) ==
    /\ kind = "modalSubmit"
    /\ CanCall
    /\ LET normalisedData == normaliseInteractionMessageData(data)
       IN IF ~Truthy(normalisedData)
          THEN /\ calls' = Append(calls, Call("reply", data, "rejected", "EmptyPayload", Null))
               /\ UNCHANGED <<capturedResponse, onAckCalls, sendFollowUpCalls>>
          ELSE LET response == ChannelMessageWithSource(normalisedData)
               IN /\ captureResponse(response)
                  /\ IF ModalSubmit_replyUsesFollowUp
                     THEN /\ sendFollowUp(response)
                          /\ calls' = Append(calls, Call("reply", data, "pending", "", response))
                          /\ UNCHANGED onAckCalls
                     ELSE /\ onAck(response)
                          /\ calls' = Append(calls, Call("reply", data, "returned", "", response))
                          /\ UNCHANGED sendFollowUpCalls
    /\ UNCHANGED <<kind, helpers, isDeferred, observed>>

ModalSubmit_editReply(data) ==
    /\ kind = "modalSubmit"
    /\ CanCall
    /\ LET normalisedData == normaliseInteractionMessageData(data)
           response == ChannelMessageWithSource(
               IF normalisedData # Undefined THEN normalisedData ELSE [content |-> ""])
       IN /\ captureResponse(response)
          /\ IF ModalSubmit_editReplyUsesFollowUp
             THEN /\ sendFollowUp(response)
                  /\ calls' = Append(calls, Call("editReply", data, "pending", "", response))
                  /\ UNCHANGED onAckCalls
             ELSE /\ onAck(response)
                  /\ calls' = Append(calls, Call("editReply", data, "returned", "", response))
                  /\ UNCHANGED sendFollowUpCalls
    /\ UNCHANGED <<kind, helpers, isDeferred, observed>>

\* mutant: deferReply does not record that the interaction is deferred
ModalSubmit_deferReply_NoFlag(options) ==
    /\ kind = "modalSubmit"
    /\ CanCall
    /\ LET flags == normaliseMessageFlags(Get(options, "flags"))
           response == DeferredResponse(flags)
       IN /\ captureResponse(response)
          /\ onAck(response)
          /\ calls' = Append(calls, Call("deferReply", options, "returned", "", response))
    /\ UNCHANGED <<kind, helpers, isDeferred, sendFollowUpCalls, observed>>

ModalSubmit_deferReply(options) ==
    /\ kind = "modalSubmit"
    /\ CanCall
    /\ LET flags == normaliseMessageFlags(Get(options, "flags"))
           response == DeferredResponse(flags)
       IN /\ captureResponse(response)
          /\ isDeferred' = TRUE
          /\ onAck(response)
          /\ calls' = Append(calls, Call("deferReply", options, "returned", "", response))
    /\ UNCHANGED <<kind, helpers, sendFollowUpCalls, observed>>

\* mutant: the failure of the follow-up is caught and the response returned
AwaitResumes_Swallows(c, settlement) == [c EXCEPT !.outcome = "fulfilled"]

\* await helpers.sendFollowUp(...); return response: what the suspended
\* reply / editReply c does when the awaited promise settles.  A rejection is
\* rethrown by await and rejects the promise of c, a fulfilment lets c return
\* its response.
AwaitResumes(c, settlement) ==
    IF settlement = "rejected"
    THEN [c EXCEPT !.outcome = "rejected", !.error = "FollowUpDeliveryFailure"]
    ELSE [c EXCEPT !.outcome = "fulfilled"]

\* mutant: a failed follow-up rolls the captured response back
sendFollowUpSettles_RollsBack(k, settlement) ==
    /\ sendFollowUpCalls[k].settled = "pending"
    /\ sendFollowUpCalls' = [sendFollowUpCalls EXCEPT ![k].settled = settlement]
    /\ LET i == sendFollowUpCalls[k].call
       IN calls' = [calls EXCEPT ![i] = AwaitResumes(calls[i], settlement)]
    /\ capturedResponse' = IF settlement = "rejected" THEN Null ELSE capturedResponse
    /\ UNCHANGED <<kind, helpers, isDeferred, onAckCalls, observed>>

\* mutant: the response is captured when the awaited follow-up has settled
sendFollowUpSettles_CapturesLate(k, settlement) ==
    /\ sendFollowUpCalls[k].settled = "pending"
    /\ sendFollowUpCalls' = [sendFollowUpCalls EXCEPT ![k].settled = settlement]
    /\ LET i == sendFollowUpCalls[k].call
       IN calls' = [calls EXCEPT ![i] = AwaitResumes(calls[i], settlement)]
    /\ capturedResponse' = sendFollowUpCalls[k].response
    /\ UNCHANGED <<kind, helpers, isDeferred, onAckCalls, observed>>

\* the promise returned by the k-th sendFollowUp settles and the reply /
\* editReply awaiting it resumes
sendFollowUpSettles(k, settlement) ==
    /\ sendFollowUpCalls[k].settled = "pending"
    /\ sendFollowUpCalls' = [sendFollowUpCalls EXCEPT ![k].settled = settlement]
    /\ LET i == sendFollowUpCalls[k].call
       IN calls' = [calls EXCEPT ![i] = AwaitResumes(calls[i], settlement)]
    /\ UNCHANGED <<kind, helpers, capturedResponse, isDeferred, onAckCalls, observed>>

-----------------------------------------------------------------------------
(* createModalSubmitInteraction: component-tree resolver *)

\* mutant: every component that has an identifier matches
HasCustomId_Any(component, customId) == "custom_id" \in DOMAIN component

\* component?.custom_id === customId
HasCustomId(component, customId) ==
    "custom_id" \in DOMAIN component /\ component.custom_id = customId

\* mutant: an empty array counts as nothing found
Found_NonEmpty(result) == Truthy(result) /\ result # Arr(<<>>)

\* if (found) return found;  if (result) return result;
Found(result) == Truthy(result)

\* const findValue = (components) => ... of getTextFieldValue(customId)
RECURSIVE findValue(_, _)
findValue(customId, components) ==
    IF components = <<>>
    THEN Undefined
    ELSE LET component == Head(components)
             found == IF Truthy(Get(component, "component"))
                      THEN findValue(customId, <<component.component>>)
                      ELSE Undefined
         IN IF HasCustomId(component, customId) /\ IsString(Get(component, "value"))
            THEN component.value
            ELSE IF Found(found)
                 THEN found
                 ELSE findValue(customId, Tail(components))

\* for (const top of interaction.data.components) of getTextFieldValue
RECURSIVE getTextFieldValue_tops(_, _)
getTextFieldValue_tops(customId, tops) ==
    IF tops = <<>>
    THEN Undefined
    ELSE LET top == Head(tops)
             inRow == IF "components" \in DOMAIN top /\ IsArray(top.components)
                      THEN findValue(customId, top.components.arr)
                      ELSE Undefined
             inLabel == IF "component" \in DOMAIN top /\ Truthy(top.component)
                        THEN findValue(customId, <<top.component>>)
                        ELSE Undefined
         IN IF Found(inRow)
            THEN inRow
            ELSE IF Found(inLabel)
                 THEN inLabel
                 ELSE getTextFieldValue_tops(customId, Tail(tops))

getTextFieldValue(customId) ==
    getTextFieldValue_tops(customId, interaction.data.components.arr)

\* const findValues = (components) => ... of getSelectMenuValues(customId)
RECURSIVE findValues(_, _)
findValues(customId, components) ==
    IF components = <<>>
    THEN Undefined
    ELSE LET component == Head(components)
             found == IF Truthy(Get(component, "component"))
                      THEN findValues(customId, <<component.component>>)
                      ELSE Undefined
         IN IF HasCustomId(component, customId) /\ IsArray(Get(component, "values"))
            THEN component.values
            ELSE IF Found(found)
                 THEN found
                 ELSE findValues(customId, Tail(components))

\* for (const top of interaction.data.components) of getSelectMenuValues
RECURSIVE getSelectMenuValues_tops(_, _)
getSelectMenuValues_tops(customId, tops) ==
    IF tops = <<>>
    THEN Undefined
    ELSE LET top == Head(tops)
             inRow == IF "components" \in DOMAIN top /\ IsArray(top.components)
                      THEN findValues(customId, top.components.arr)
                      ELSE Undefined
             inLabel == IF "component" \in DOMAIN top /\ Truthy(top.component)
                        THEN findValues(customId, <<top.component>>)
                        ELSE Undefined
         IN IF Found(inRow)
            THEN inRow
            ELSE IF Found(inLabel)
                 THEN inLabel
                 ELSE getSelectMenuValues_tops(customId, Tail(tops))

getSelectMenuValues(customId) ==
    getSelectMenuValues_tops(customId, interaction.data.components.arr)

getComponentValue(customId) ==
    LET textValue == getTextFieldValue(customId)
    IN IF textValue # Undefined THEN textValue ELSE getSelectMenuValues(customId)

\* interaction.data.resolved?.[key]
ResolvedMap(key) == Get(Get(interaction.data, "resolved"), key)

\* mutant: identifiers without an entry stay in the list as undefined
DropUnresolved_Keeps(entities) == entities

\* .filter(Boolean), .filter((u) => !!u)
DropUnresolved(entities) == SelectSeq(entities, Truthy)

getRoles(customId) ==
    LET values == getSelectMenuValues(customId)
        role(id) == Get(ResolvedMap("roles"), id)
    IN IF ~Truthy(values) \/ ~Truthy(ResolvedMap("roles"))
       THEN Arr(<<>>)
       ELSE Arr(DropUnresolved([i \in DOMAIN values.arr |-> role(values.arr[i])]))

getRole(customId) == At(getRoles(customId), 0)

getUsers(customId) ==
    LET values == getSelectMenuValues(customId)
        option(id) ==
            LET user == Get(ResolvedMap("users"), id)
                member == Get(ResolvedMap("members"), id)
            IN IF Truthy(user) THEN [user |-> user, member |-> member] ELSE Undefined
    IN IF ~Truthy(values) \/ ~Truthy(ResolvedMap("users"))
       THEN Arr(<<>>)
       ELSE Arr(DropUnresolved([i \in DOMAIN values.arr |-> option(values.arr[i])]))

getUser(customId) == At(getUsers(customId), 0)

getChannels(customId) ==
    LET values == getSelectMenuValues(customId)
        channel(id) == Get(ResolvedMap("channels"), id)
    IN IF ~Truthy(values) \/ ~Truthy(ResolvedMap("channels"))
       THEN Arr(<<>>)
       ELSE Arr(DropUnresolved([i \in DOMAIN values.arr |-> channel(values.arr[i])]))

getChannel(customId) == At(getChannels(customId), 0)

getAttachment(customId) ==
    LET value == getComponentValue(customId)
    IN IF ~Truthy(value) \/ IsArray(value)
       THEN Undefined
       ELSE Get(ResolvedMap("attachments"), value.str)

\* the handler calls resolver method fn of the facade with customId and gets
\* result; the resolver methods read interaction.data and write nothing, so
\* one query per behaviour shows what any query would return
Returns(fn, customId, result) ==
    /\ kind = "modalSubmit"
    /\ query = NoQuery
    /\ query' = [fn |-> fn, customId |-> customId, result |-> result]
    /\ UNCHANGED <<lifecycleVars, interaction, button, db>>

ModalSubmit_getTextFieldValue(customId) ==
    Returns("getTextFieldValue", customId, getTextFieldValue(customId))

ModalSubmit_getSelectMenuValues(customId) ==
    Returns("getSelectMenuValues", customId, getSelectMenuValues(customId))

ModalSubmit_getComponentValue(customId) ==
    Returns("getComponentValue", customId, getComponentValue(customId))

ModalSubmit_getRoles(customId) == Returns("getRoles", customId, getRoles(customId))

ModalSubmit_getRole(customId) == Returns("getRole", customId, getRole(customId))

ModalSubmit_getUsers(customId) == Returns("getUsers", customId, getUsers(customId))

ModalSubmit_getUser(customId) == Returns("getUser", customId, getUser(customId))

ModalSubmit_getChannels(customId) ==
    Returns("getChannels", customId, getChannels(customId))

ModalSubmit_getChannel(customId) ==
    Returns("getChannel", customId, getChannel(customId))

ModalSubmit_getAttachment(customId) ==
    Returns("getAttachment", customId, getAttachment(customId))

-----------------------------------------------------------------------------
(* ButtonBuilder *)

\* no facade is involved
FacadeUnused ==
    /\ kind = "none"
    /\ helpers = NoHelpers
    /\ capturedResponse = Null
    /\ isDeferred = FALSE
    /\ onAckCalls = <<>>
    /\ sendFollowUpCalls = <<>>
    /\ calls = <<>>
    /\ observed = Unread
    /\ interaction = [token |-> Token]
    /\ query = NoQuery

\* enum ButtonStyle; Success and Danger are treated by the builder exactly
\* as Primary and Secondary are
ButtonStyle_Primary == Num(1)

ButtonStyle_Secondary == Num(2)

ButtonStyle_Link == Num(5)

ButtonStyle_Premium == Num(6)

ButtonStyles ==
    {ButtonStyle_Primary, ButtonStyle_Secondary, ButtonStyle_Link, ButtonStyle_Premium}

\* seed data handed to the constructor
ButtonSeeds ==
    [style : ButtonStyles \cup {Undefined},
     customId : {Undefined, Str("seed")},
     url : {Undefined, Str("https://seed")},
     skuId : {Undefined, Str("sku0")}]

\* constructor(data): style defaults to Secondary, the other fields are
\* copied; label, emoji and disabled are left unset here
ButtonBuilder(data) ==
    [style |-> IF data.style # Undefined THEN data.style ELSE ButtonStyle_Secondary,
     label |-> Undefined,
     emoji |-> Undefined,
     customId |-> data.customId,
     url |-> data.url,
     disabled |-> Undefined,
     skuId |-> data.skuId]

NotSerialised == [tag |-> "none"]

\* data is this.data, setters the setter calls made so far (latest last),
\* json what toJSON() returned or threw since the latest setter call
InitButton ==
    /\ FacadeUnused
    /\ db = NoDatabase
    /\ button \in {[data |-> ButtonBuilder(seed), setters |-> <<>>, json |-> NotSerialised] :
                      seed \in ButtonSeeds}

\* a setter call that leaves this.data as d
Sets(name, arg, d) ==
    /\ button # NoButton
    /\ Len(button.setters) < MaxSetterCalls
    /\ button' = [data |-> d,
                  setters |-> Append(button.setters, [name |-> name, arg |-> arg]),
                  json |-> NotSerialised]
    /\ UNCHANGED <<lifecycleVars, interaction, query, db>>

ButtonBuilder_setStyle(style) ==
    Sets("setStyle", style, [button.data EXCEPT !.style = style])

ButtonBuilder_setCustomId(customId) ==
    Sets("setCustomId", customId,
         [button.data EXCEPT !.customId = customId,
                             !.style = IF button.data.style = ButtonStyle_Link
                                       THEN ButtonStyle_Secondary ELSE button.data.style,
                             !.url = Undefined,
                             !.skuId = Undefined])

ButtonBuilder_setURL(url) ==
    Sets("setURL", url,
         [button.data EXCEPT !.url = url, !.customId = Undefined,
                             !.skuId = Undefined, !.style = ButtonStyle_Link])

ButtonBuilder_setSKUId(skuId) ==
    Sets("setSKUId", skuId,
         [button.data EXCEPT !.skuId = skuId, !.customId = Undefined,
                             !.url = Undefined, !.style = ButtonStyle_Premium])

\* emoji ? { ...emoji } : undefined
CopyEmoji(emoji) == IF Truthy(emoji) THEN emoji ELSE Undefined

\* toJSON(): the payload it returns, or the error it throws
ButtonBuilder_toJSON_of(data) ==
    IF data.style = ButtonStyle_Link
    THEN IF ~Truthy(data.url)
         THEN [error |-> "Link buttons must have a URL."]
         ELSE [value |-> [type |-> "Button", style |-> data.style, label |-> data.label,
                          emoji |-> CopyEmoji(data.emoji), disabled |-> data.disabled,
                          url |-> data.url]]
    ELSE IF data.style = ButtonStyle_Premium
    THEN IF ~Truthy(data.skuId)
         THEN [error |-> "Premium buttons must have an SKU id."]
         ELSE [value |-> [type |-> "Button", style |-> data.style,
                          disabled |-> data.disabled, sku_id |-> data.skuId]]
    ELSE IF ~Truthy(data.customId)
         THEN [error |-> "Non-link buttons must have a custom id."]
         ELSE [value |-> [type |-> "Button", style |-> data.style, label |-> data.label,
                          emoji |-> CopyEmoji(data.emoji), disabled |-> data.disabled,
                          custom_id |-> data.customId]]

ButtonBuilder_toJSON ==
    /\ button # NoButton
    /\ button' = [button EXCEPT !.json = ButtonBuilder_toJSON_of(button.data)]
    /\ UNCHANGED <<lifecycleVars, interaction, query, db>>

NextButton ==
    \/ \E style \in ButtonStyles : ButtonBuilder_setStyle(style)
    \/ \E customId \in {Str("c"), Str("")} : ButtonBuilder_setCustomId(customId)
    \/ ButtonBuilder_setURL(Str("https://u"))
    \/ ButtonBuilder_setSKUId(Str("sku"))
    \/ ButtonBuilder_toJSON

SpecButton == InitButton /\ [][NextButton]_vars

-----------------------------------------------------------------------------
(* MiniDatabase *)

\* The instance is constructed without a schema (the optional second
\* argument), so validate and applyDefaults are not called.

Keys == {"k"}

NoDoc == [tag |-> "none"]

\* new Date(): one instant stands for every time of call
Date == Str("date")

\* { ...a, ...b }
Merge(a, b) == [g \in DOMAIN a \cup DOMAIN b |-> IF g \in DOMAIN b THEN b[g] ELSE a[g]]

\* the calls a program may issue on the instance, each at most once
GetCalls == [op : {"get"}, key : Keys, arg : {Undefined}]

SetCalls == [op : {"set"}, key : Keys, arg : {[y |-> Num(2)]}]

UpdateCalls == [op : {"update"}, key : Keys, arg : {[x |-> Num(1)], [y |-> Num(1)]}]

DeleteCalls == [op : {"delete"}, key : Keys, arg : {Undefined}]

DatabaseCalls == GetCalls \cup SetCalls \cup UpdateCalls \cup DeleteCalls

\* a call that has not been issued
Idle == [pc |-> "idle", request |-> Undefined, result |-> Undefined]

Issued == {c \in DatabaseCalls : db.ops[c].pc # "idle"}

\* initPromise is "unset" until initialize() assigns it; initCalls counts the
\* invocations of initializeMongoDB; collection tells whether
\* this.mongoCollection is assigned; store is the collection's content;
\* ops holds, for each call, the await it is suspended at
InitDatabase ==
    /\ FacadeUnused
    /\ button = NoButton
    /\ db = [initPromise |-> "unset",
             initCalls |-> 0,
             collection |-> FALSE,
             store |-> [k \in Keys |-> NoDoc],
             ops |-> [c \in DatabaseCalls |-> Idle]]

\* mutant: every call starts an initialisation of its own
initialize_Always(d) ==
    [d EXCEPT !.initPromise = "pending", !.initCalls = @ + 1]

\* initialize(): the first call invokes initializeMongoDB and keeps its
\* promise; every later call returns the promise kept
initialize(d) ==
    IF d.initPromise # "unset"
    THEN d
    ELSE [d EXCEPT !.initPromise = "pending", !.initCalls = @ + 1]

\* the synchronous prefix of get, set, update and delete: the call runs
\* initialize() and suspends at `await this.initialize()`
Invoke(c) ==
    /\ db # NoDatabase
    /\ db.ops[c].pc = "idle"
    /\ Cardinality(Issued) < MaxOps
    /\ db' = [initialize(db) EXCEPT !.ops[c].pc = "initialize"]
    /\ UNCHANGED <<lifecycleVars, interaction, query, button>>

MiniDatabase_get(key) == \E c \in GetCalls : c.key = key /\ Invoke(c)

MiniDatabase_set(key, data) ==
    \E c \in SetCalls : c.key = key /\ c.arg = data /\ Invoke(c)

MiniDatabase_update(key, updates) ==
    \E c \in UpdateCalls : c.key = key /\ c.arg = updates /\ Invoke(c)

MiniDatabase_delete(key) == \E c \in DeleteCalls : c.key = key /\ Invoke(c)

\* initializeMongoDB settles: the driver was imported and the client
\* connected, so the collection is assigned; or one of them failed and the
\* error is rethrown
initializeMongoDB_settles(outcome) ==
    /\ db # NoDatabase
    /\ db.initPromise = "pending"
    /\ db' = [db EXCEPT !.initPromise = outcome,
                        !.collection = (outcome = "fulfilled")]
    /\ UNCHANGED <<lifecycleVars, interaction, query, button>>

\* the update document set sends
SetRequest(key, data) ==
    [set |-> With(With(data, "_id", Str(key)), "updatedAt", Date),
     setOnInsert |-> [createdAt |-> Date]]

\* the update document update sends, existing being what get returned
UpdateRequest(existing, updates) ==
    [set |-> With(Merge(IF existing = Null THEN EmptyObject ELSE existing, updates),
                  "updatedAt", Date),
     setOnInsert |-> [createdAt |-> Date]]

\* a call resumes from `await this.initialize()`. A rejected initialisation
\* rejects the call (the await stands before the try block). Otherwise the
\* collection is checked and the call sends its first request: get and
\* update (through this.get, whose own initialize() returns the promise
\* kept) findOne, set updateOne, delete deleteOne.
AfterInitialize(c) ==
    /\ db # NoDatabase
    /\ db.ops[c].pc = "initialize"
    /\ db.initPromise \in {"fulfilled", "rejected"}
    /\ db' =
        IF db.initPromise = "rejected"
        THEN [db EXCEPT !.ops[c] = [pc |-> "done", request |-> Undefined,
                                    result |-> Str("rejected")]]
        ELSE IF ~db.collection
        THEN [db EXCEPT !.ops[c] = [pc |-> "done", request |-> Undefined,
                                    result |-> IF c.op = "get" THEN Null
                                               ELSE [bool |-> FALSE]]]
        ELSE IF c.op \in {"get", "update"}
        THEN [initialize(db) EXCEPT !.ops[c].pc = "findOne"]
        ELSE IF c.op = "set"
        THEN [db EXCEPT !.ops[c].pc = "updateOne",
                        !.ops[c].request = SetRequest(c.key, c.arg)]
        ELSE [db EXCEPT !.ops[c].pc = "deleteOne"]
    /\ UNCHANGED <<lifecycleVars, interaction, query, button>>

\* collection.findOne({ _id: key }) settles: get returns the document
\* without _id, or null; update goes on to merge and send its updateOne
findOne_settles(c) ==
    /\ db # NoDatabase
    /\ db.ops[c].pc = "findOne"
    /\ LET doc == db.store[c.key]
           rest == IF doc = NoDoc THEN Null ELSE Without(doc, "_id")
       IN db' = IF c.op = "get"
                THEN [db EXCEPT !.ops[c].pc = "done", !.ops[c].result = rest]
                ELSE [db EXCEPT !.ops[c].pc = "updateOne",
                                !.ops[c].request = UpdateRequest(rest, c.arg)]
    /\ UNCHANGED <<lifecycleVars, interaction, query, button>>

\* what the server may do with updateOne(filter, request, { upsert: true }).
\* A request that names one path under both $set and $setOnInsert is
\* rejected by MongoDB as conflicting; the server is not part of this
\* repository, so its applying $set is allowed for as well.
UpdateOneOutcomes(request) ==
    IF DOMAIN request.set \cap DOMAIN request.setOnInsert # {}
    THEN {"rejected", "applied"}
    ELSE {"applied"}

\* the document an applied updateOne leaves under key
Upserted(doc, key, request) ==
    IF doc = NoDoc
    THEN Merge(Merge([_id |-> Str(key)], request.setOnInsert), request.set)
    ELSE Merge(doc, request.set)

\* collection.updateOne(...) settles for set or update: applied, the call
\* returns true; rejected, the catch block returns false
updateOne_settles(c, outcome) ==
    /\ db # NoDatabase
    /\ db.ops[c].pc = "updateOne"
    /\ outcome \in UpdateOneOutcomes(db.ops[c].request)
    /\ db' = IF outcome = "applied"
             THEN [db EXCEPT !.store[c.key] = Upserted(@, c.key, db.ops[c].request),
                             !.ops[c].pc = "done",
                             !.ops[c].result = [bool |-> TRUE]]
             ELSE [db EXCEPT !.ops[c].pc = "done",
                             !.ops[c].result = [bool |-> FALSE]]
    /\ UNCHANGED <<lifecycleVars, interaction, query, button>>

\* collection.deleteOne({ _id: key }) settles
deleteOne_settles(c) ==
    /\ db # NoDatabase
    /\ db.ops[c].pc = "deleteOne"
    /\ db' = [db EXCEPT !.store[c.key] = NoDoc,
                        !.ops[c].pc = "done",
                        !.ops[c].result = [bool |-> TRUE]]
    /\ UNCHANGED <<lifecycleVars, interaction, query, button>>

NextDatabase ==
    \/ \E key \in Keys : MiniDatabase_get(key)
    \/ \E key \in Keys : MiniDatabase_set(key, [y |-> Num(2)])
    \/ \E key \in Keys, updates \in {[x |-> Num(1)], [y |-> Num(1)]} :
           MiniDatabase_update(key, updates)
    \/ \E key \in Keys : MiniDatabase_delete(key)
    \/ \E outcome \in {"fulfilled", "rejected"} : initializeMongoDB_settles(outcome)
    \/ \E c \in DatabaseCalls : AfterInitialize(c)
    \/ \E c \in DatabaseCalls : findOne_settles(c)
    \/ \E c \in DatabaseCalls, outcome \in {"applied", "rejected"} :
           updateOne_settles(c, outcome)
    \/ \E c \in DatabaseCalls : deleteOne_settles(c)

SpecDatabase == InitDatabase /\ [][NextDatabase]_vars

-----------------------------------------------------------------------------
(* Methods a facade does not have *)

\* the response methods each factory assigns to the payload with
\* Object.assign(interaction, {...})
Exposed(k) ==
    CASE k \in {"userContextMenu", "messageContextMenu"} -> {"reply", "deferReply", "showModal"}
      [] k = "messageComponent" -> {"reply", "deferReply", "update", "deferUpdate"}
      [] k = "modalSubmit" -> {"reply", "deferReply", "editReply"}

\* mutant: calling a method the facade does not have quietly yields undefined
InvokeMissing_NoOp(method) ==
    /\ CanCall
    /\ method \notin Exposed(kind)
    /\ calls' = Append(calls, Call(method, Undefined, "returned", "", Null))
    /\ UNCHANGED <<kind, helpers, capturedResponse, isDeferred, onAckCalls,
                   sendFollowUpCalls, observed>>

\* interaction.method(...) for a method that was not assigned to the facade:
\* the property is undefined and the call throws a TypeError before any code
\* of the facade runs
InvokeMissing(method) ==
    /\ CanCall
    /\ method \notin Exposed(kind)
    /\ calls' = Append(calls, Call(method, Undefined, "threw", "TypeError", Null))
    /\ UNCHANGED <<kind, helpers, capturedResponse, isDeferred, onAckCalls,
                   sendFollowUpCalls, observed>>

-----------------------------------------------------------------------------
\* mutant: reading the response hands it over and empties the cell
getResponse_Consuming ==
    /\ observed' = capturedResponse
    /\ capturedResponse' = Null
    /\ UNCHANGED <<kind, helpers, isDeferred, onAckCalls, sendFollowUpCalls, calls>>

getResponse ==
    /\ observed' = capturedResponse
    /\ UNCHANGED <<kind, helpers, capturedResponse, isDeferred, onAckCalls,
                   sendFollowUpCalls, calls>>

\* none of the response methods touches the payload, a resolver result, a
\* builder or a database
Step(A) == A /\ UNCHANGED <<interaction, query, button, db>>

\* one step of the handler, or of a pending follow-up, on the facade
Next ==
    \/ Step(getResponse)
    \/ \E data \in MessageDataInputs : Step(UserContextMenu_reply(data))
    \/ \E options \in DeferReplyInputs : Step(UserContextMenu_deferReply(options))
    \/ \E data \in ModalInputs : Step(UserContextMenu_showModal(data))
    \/ \E data \in MessageDataInputs : Step(MessageContextMenu_reply(data))
    \/ \E options \in DeferReplyInputs : Step(MessageContextMenu_deferReply(options))
    \/ \E data \in ModalInputs : Step(MessageContextMenu_showModal(data))
    \/ \E data \in MessageDataInputs : Step(MessageComponent_reply(data))
    \/ \E options \in DeferReplyInputs : Step(MessageComponent_deferReply(options))
    \/ \E data \in MessageDataInputs : Step(MessageComponent_update(data))
    \/ Step(MessageComponent_deferUpdate)
    \/ \E data \in MessageDataInputs : Step(ModalSubmit_reply(data))
    \/ \E data \in EditReplyInputs : Step(ModalSubmit_editReply(data))
    \/ \E options \in DeferReplyInputs : Step(ModalSubmit_deferReply(options))
    \/ \E k \in 1..Len(sendFollowUpCalls) :
          \E settlement \in {"fulfilled", "rejected"} :
              Step(sendFollowUpSettles(k, settlement))

Spec == Init /\ [][Next]_vars

\* the resolver methods of a modal submit facade, called in any order
NextResolver ==
    \/ \E customId \in CustomIdInputs : ModalSubmit_getTextFieldValue(customId)
    \/ \E customId \in CustomIdInputs : ModalSubmit_getSelectMenuValues(customId)
    \/ \E customId \in CustomIdInputs : ModalSubmit_getComponentValue(customId)
    \/ \E customId \in CustomIdInputs : ModalSubmit_getRoles(customId)
    \/ \E customId \in CustomIdInputs : ModalSubmit_getRole(customId)
    \/ \E customId \in CustomIdInputs : ModalSubmit_getUsers(customId)
    \/ \E customId \in CustomIdInputs : ModalSubmit_getUser(customId)
    \/ \E customId \in CustomIdInputs : ModalSubmit_getChannels(customId)
    \/ \E customId \in CustomIdInputs : ModalSubmit_getChannel(customId)
    \/ \E customId \in CustomIdInputs : ModalSubmit_getAttachment(customId)

SpecResolver == InitResolver /\ [][NextResolver]_vars

\* the two tree searches of the resolver
NextNesting ==
    \/ \E customId \in CustomIdInputs : ModalSubmit_getTextFieldValue(customId)
    \/ \E customId \in CustomIdInputs : ModalSubmit_getSelectMenuValues(customId)

SpecNesting == InitNesting /\ [][NextNesting]_vars

\* a handler that also calls acknowledgement methods its facade lacks; the
\* modal submit facade is acknowledged with deferReply here
NextCapabilities ==
    \/ Step(getResponse)
    \/ \E data \in MessageDataInputs : Step(UserContextMenu_reply(data))
    \/ \E options \in DeferReplyInputs : Step(UserContextMenu_deferReply(options))
    \/ \E data \in ModalInputs : Step(UserContextMenu_showModal(data))
    \/ \E data \in MessageDataInputs : Step(MessageContextMenu_reply(data))
    \/ \E options \in DeferReplyInputs : Step(MessageContextMenu_deferReply(options))
    \/ \E data \in ModalInputs : Step(MessageContextMenu_showModal(data))
    \/ \E data \in MessageDataInputs : Step(MessageComponent_reply(data))
    \/ \E options \in DeferReplyInputs : Step(MessageComponent_deferReply(options))
    \/ \E data \in MessageDataInputs : Step(MessageComponent_update(data))
    \/ Step(MessageComponent_deferUpdate)
    \/ \E options \in DeferReplyInputs : Step(ModalSubmit_deferReply(options))
    \/ \E method \in {"update", "deferUpdate", "showModal"} : Step(InvokeMissing(method))

SpecCapabilities == Init /\ [][NextCapabilities]_vars

\* the response methods of a facade interleaved with a resolver method
NextFacade ==
    \/ Next
    \/ ModalSubmit_getTextFieldValue("a")

SpecFacade == Init /\ [][NextFacade]_vars

-----------------------------------------------------------------------------
(* Properties *)

CallIds == 1..Len(calls)

\* the invocations of sendFollowUp / onAck made by call i
FollowUpsBy(i) == {k \in 1..Len(sendFollowUpCalls) : sendFollowUpCalls[k].call = i}
AcksBy(i) == {k \in 1..Len(onAckCalls) : onAckCalls[k].call = i}

\* call i handed its response to sendFollowUp(interaction.token, response, '@original')
DeliveredAsFollowUp(i) ==
    \E k \in FollowUpsBy(i) :
        /\ sendFollowUpCalls[k].token = Token
        /\ sendFollowUpCalls[k].response = calls[i].response
        /\ sendFollowUpCalls[k].messageId = "@original"

\* call i was issued after a deferReply
AfterDeferReply(i) == \E j \in 1..(i - 1) : calls[j].method = "deferReply"

\* the response type fixed for each acknowledgement method
ExpectedType(method) ==
    CASE method = "reply" -> "ChannelMessageWithSource"
      [] method = "deferReply" -> "DeferredChannelMessageWithSource"
      [] method = "update" -> "UpdateMessage"
      [] method = "deferUpdate" -> "DeferredMessageUpdate"
      [] method = "showModal" -> "Modal"

\* the response written by the most recent call that wrote one, or Null
LastWritten ==
    LET W == {i \in CallIds : calls[i].response # Null}
    IN IF W = {} THEN Null
       ELSE calls[CHOOSE i \in W : \A j \in W : j <= i].response

\* C1: on a fresh facade of any kind, after exactly one acknowledgement call
\* (reply, deferReply, update, deferUpdate, showModal) that returned, the
\* captured response, and so what getResponse() returns after it, has the
\* type fixed for that method.
C1_TypeMatchesMethod ==
    (/\ Len(calls) = 1
     /\ calls[1].method \in {"reply", "deferReply", "update", "deferUpdate", "showModal"}
     /\ calls[1].outcome = "returned")
    => /\ capturedResponse # Null
       /\ capturedResponse.type = ExpectedType(calls[1].method)
       /\ (observed \notin {Unread, Null}
             => observed.type = ExpectedType(calls[1].method))

C1_Witness ==
    /\ kind = "messageComponent"
    /\ Len(calls) = 1
    /\ calls[1].method = "deferUpdate"
    /\ observed \notin {Unread, Null}
    /\ observed.type = "DeferredMessageUpdate"

\* C2 as stated: once getResponse() has returned a non-null response R, every
\* later getResponse() returns R, whatever is called in between.
C2_ResponseImmutableOnceRead ==
    [][observed \notin {Unread, Null} => observed' = observed]_vars

\* C2 amended: the captured response is replaced only by a call that builds a
\* new response and appends itself to the history with it; a getResponse()
\* returns the captured response and leaves it alone, so it returns R again
\* until such a call has captured another response.
C2_ResponseChangesOnlyByCapture ==
    [][/\ capturedResponse' # capturedResponse
            => /\ Len(calls') = Len(calls) + 1
               /\ calls'[Len(calls')].response = capturedResponse'
       /\ observed' # observed
            => /\ observed' = capturedResponse
               /\ capturedResponse' = capturedResponse]_vars

C2_Witness ==
    /\ kind = "messageComponent"
    /\ Len(calls) = 2
    /\ calls[1].response # Null
    /\ calls[2].outcome = "threw"
    /\ observed = calls[1].response
    /\ capturedResponse = observed

\* C3 as stated: over any sequence of reply, deferReply and editReply calls on
\* one modal submit facade, onAck is invoked at most once.  It is stated here
\* for the facade that was given both helpers, where a follow-up channel
\* exists for the later calls.
C3_OnAckAtMostOnce ==
    (helpers.onAck /\ helpers.sendFollowUp) => Len(onAckCalls) <= 1

\* on a modal submit facade every reply issued after a deferReply (and
\* passing the payload check) is delivered as
\* sendFollowUp(token, response, '@original') and not through onAck
ReplyAfterDeferIsFollowUp ==
    kind = "modalSubmit"
    => \A i \in CallIds :
          (calls[i].method = "reply" /\ calls[i].response # Null /\ AfterDeferReply(i))
          => DeliveredAsFollowUp(i) /\ AcksBy(i) = {}

\* C4 as stated: every reply issued after a deferReply goes to the follow-up
\* channel and never to onAck.  It is stated here for the facades that were
\* given an onAck helper, whatever else they were given.
C4_ReplyAfterDeferIsFollowUp ==
    helpers.onAck => ReplyAfterDeferIsFollowUp

\* C4 amended: every reply issued after a deferReply goes to the follow-up
\* channel and never to onAck on a facade that was given a sendFollowUp
\* helper.
C4_ReplyAfterDeferIsFollowUpWithHelper ==
    helpers.sendFollowUp => ReplyAfterDeferIsFollowUp

C4_Witness ==
    /\ helpers.sendFollowUp
    /\ helpers.onAck
    /\ Len(calls) = 3
    /\ calls[1].method = "deferReply"
    /\ calls[2].method = "reply"
    /\ calls[3].method = "reply"
    /\ DeliveredAsFollowUp(2)
    /\ DeliveredAsFollowUp(3)
    /\ Len(onAckCalls) = 1

\* C5 as stated: isDeferred is true only while the captured response is one
\* of the Deferred variants.
C5_DeferredOnlyWithDeferredResponse ==
    isDeferred
    => capturedResponse.type \in {"DeferredChannelMessageWithSource", "DeferredMessageUpdate"}

\* C5 amended: isDeferred is true exactly when a deferReply has captured a
\* DeferredChannelMessageWithSource response on this modal submit facade at
\* some point, whether or not that response has been overwritten since.
C5_DeferredIffDeferReplyCalled ==
    isDeferred
    <=> /\ kind = "modalSubmit"
        /\ \E i \in CallIds :
              /\ calls[i].method = "deferReply"
              /\ calls[i].response.type = "DeferredChannelMessageWithSource"

C5_Witness ==
    /\ isDeferred
    /\ capturedResponse.type = "ChannelMessageWithSource"
    /\ Len(sendFollowUpCalls) = 1

\* data carries a content-bearing field
ContentBearing(data) == data # Undefined /\ "content" \in DOMAIN data

\* C6 as stated: reply(data) fails with the empty-payload error whenever data
\* carries no content-bearing field ({} and omitted data included), and
\* reply({content: "x"}) succeeds with a ChannelMessageWithSource response
\* whose data.content is "x".
C6_ReplyRejectsEmptyPayload ==
    \A i \in CallIds :
        calls[i].method = "reply"
        => /\ ~ContentBearing(calls[i].arg) => calls[i].error = "EmptyPayload"
           /\ calls[i].arg = [content |-> "x"]
                => /\ calls[i].error = ""
                   /\ calls[i].response.type = "ChannelMessageWithSource"
                   /\ calls[i].response.data.content = "x"

\* C7: a reply that fails with the empty-payload error invokes neither onAck
\* nor sendFollowUp and leaves the captured response and the deferred flag as
\* they were.
C7_EmptyPayloadChangesNothing ==
    [][(/\ Len(calls') = Len(calls) + 1
        /\ calls'[Len(calls')].method = "reply"
        /\ calls'[Len(calls')].error = "EmptyPayload")
       => UNCHANGED <<capturedResponse, isDeferred, onAckCalls, sendFollowUpCalls>>]_vars

C7_Witness ==
    /\ helpers.onAck
    /\ helpers.sendFollowUp
    /\ Len(calls) = 3
    /\ calls[3].method = "reply"
    /\ calls[3].error = "EmptyPayload"
    /\ isDeferred
    /\ capturedResponse = calls[2].response
    /\ capturedResponse # Null

\* C8: when the promise of a sendFollowUp made by reply or editReply rejects,
\* the promise of that reply / editReply is rejected with the failure, and
\* sendFollowUp was invoked exactly once by that call.
C8_FollowUpFailureSurfaced ==
    \A k \in 1..Len(sendFollowUpCalls) :
        LET i == sendFollowUpCalls[k].call
        IN /\ calls[i].method \in {"reply", "editReply"}
           /\ Cardinality(FollowUpsBy(i)) = 1
           /\ sendFollowUpCalls[k].settled = "rejected"
                => /\ calls[i].outcome = "rejected"
                   /\ calls[i].error = "FollowUpDeliveryFailure"

C8_Witness ==
    \E k \in 1..Len(sendFollowUpCalls) :
        /\ sendFollowUpCalls[k].settled = "rejected"
        /\ calls[sendFollowUpCalls[k].call].method = "reply"
        /\ calls[sendFollowUpCalls[k].call].outcome = "rejected"
        /\ Len(calls) > sendFollowUpCalls[k].call

\* every editReply is delivered as sendFollowUp(token, response, '@original')
\* and not through onAck
EditReplyIsFollowUp ==
    \A i \in CallIds :
        calls[i].method = "editReply" => DeliveredAsFollowUp(i) /\ AcksBy(i) = {}

\* C9 as stated: every editReply, in any acknowledgement state and with or
\* without data, goes to the follow-up channel and never to onAck.  It is
\* stated here for the facades that were given an onAck helper, whatever else
\* they were given.
C9_EditReplyIsFollowUp ==
    helpers.onAck => EditReplyIsFollowUp

\* C9 amended: that holds on a facade that was given a sendFollowUp helper;
\* without one editReply invokes no follow-up and hands its response to onAck
\* when that helper was given.
C9_EditReplyIsFollowUpWithHelper ==
    /\ helpers.sendFollowUp => EditReplyIsFollowUp
    /\ ~helpers.sendFollowUp
         => \A i \in CallIds :
               calls[i].method = "editReply"
               => /\ FollowUpsBy(i) = {}
                  /\ helpers.onAck
                       => \E k \in AcksBy(i) : onAckCalls[k].response = calls[i].response

C9_Witness ==
    /\ helpers.sendFollowUp
    /\ helpers.onAck
    /\ ~isDeferred
    /\ \E i \in CallIds :
          /\ calls[i].method = "editReply"
          /\ calls[i].arg = Undefined
          /\ calls[i].response.data = [content |-> ""]
          /\ DeliveredAsFollowUp(i)

\* C10: the captured response is Null while no call has written one and
\* otherwise the response written by the most recent call; a getResponse()
\* returns it and changes neither the captured response nor the deferred flag
\* nor the history, and invokes no callback.
C10_GetResponseReadsLastWritten ==
    /\ [](capturedResponse = LastWritten)
    /\ [][observed' # observed
            => /\ observed' = capturedResponse
               /\ UNCHANGED <<capturedResponse, isDeferred, onAckCalls,
                              sendFollowUpCalls, calls>>]_vars

C10_Witness ==
    /\ kind = "modalSubmit"
    /\ Len(calls) = 2
    /\ calls[1].response # Null
    /\ calls[2].response # Null
    /\ calls[1].response # calls[2].response
    /\ observed = calls[2].response

\* C11: there is no transition back to Unacknowledged: once the captured
\* response of a facade is non-null, no operation on that facade (a
\* successful or failing acknowledgement call, the settlement of a
\* follow-up, a resolver query, getResponse) makes it null again.
C11_NoTransitionBackToUnacknowledged ==
    [][capturedResponse # Null => capturedResponse' # Null]_vars

\* a modal submit facade that still holds a response after an empty reply
\* was rejected, a follow-up failed and a resolver method was queried
C11_Witness ==
    /\ capturedResponse # Null
    /\ query # NoQuery
    /\ \E i \in CallIds :
          /\ calls[i].error = "EmptyPayload"
          /\ \E j \in 1..(i - 1) : calls[j].response # Null
    /\ \E k \in 1..Len(sendFollowUpCalls) : sendFollowUpCalls[k].settled = "rejected"

AckMethods == {"reply", "deferReply", "update", "deferUpdate", "showModal"}

\* call i reached await helpers.sendFollowUp(...) and was suspended there
Suspended(i) == FollowUpsBy(i) # {}

\* C12 (as stated): no call of reply, deferReply, update, deferUpdate or
\* showModal, on any facade kind, is ever suspended before it completes.
C12_AckMethodsNeverSuspend ==
    \A i \in CallIds : calls[i].method \in AckMethods => ~Suspended(i)

\* C12 (amended): an acknowledgement call is suspended only when it is reply
\* on a modal submit facade that was given sendFollowUp and has been
\* deferred; it has captured its response before it is suspended.  Every
\* other acknowledgement call completes in the step that starts it.
C12_OnlyDeferredModalReplySuspends ==
    \A i \in CallIds :
        calls[i].method \in AckMethods =>
            IF Suspended(i)
            THEN /\ kind = "modalSubmit"
                 /\ calls[i].method = "reply"
                 /\ helpers.sendFollowUp
                 /\ AfterDeferReply(i)
                 /\ calls[i].response # Null
                 /\ calls[i].outcome \in {"pending", "fulfilled", "rejected"}
            ELSE calls[i].outcome \in {"returned", "threw", "rejected"}
                 /\ (calls[i].outcome = "rejected" => calls[i].error = "EmptyPayload")

\* a modal reply is still suspended while a later call of the handler has
\* already been made
C12_Witness ==
    \E i \in CallIds :
        /\ calls[i].method = "reply"
        /\ calls[i].outcome = "pending"
        /\ i < Len(calls)
        /\ calls[Len(calls)].response # Null

\* the invocations of onAck and sendFollowUp, each with the call that made it
Invocations ==
    {[call |-> onAckCalls[k].call, seq |-> onAckCalls[k].seq,
      response |-> onAckCalls[k].response] : k \in 1..Len(onAckCalls)}
    \cup {[call |-> sendFollowUpCalls[k].call, seq |-> sendFollowUpCalls[k].seq,
           response |-> sendFollowUpCalls[k].response] : k \in 1..Len(sendFollowUpCalls)}

\* C13: on a modal submit facade the invocations of onAck and sendFollowUp
\* happen in the order of the reply, deferReply and editReply calls that
\* made them, each call makes at most one and passes its own response, and
\* the captured response is the one of the latest call that captured; this
\* holds also while an earlier reply or editReply is still pending.
C13_CallsProcessedInOrder ==
    kind = "modalSubmit" =>
        /\ \A e1, e2 \in Invocations : (e1.seq < e2.seq) <=> (e1.call < e2.call)
        /\ \A e \in Invocations : e.response = calls[e.call].response
        /\ capturedResponse = LastWritten

\* a later call has made its invocation and its capture while an earlier
\* reply or editReply is still pending
C13_Witness ==
    /\ kind = "modalSubmit"
    /\ \E i \in CallIds :
          /\ calls[i].outcome = "pending"
          /\ \E e \in Invocations : e.call > i /\ e.response # calls[i].response
          /\ capturedResponse # calls[i].response

\* C14 (as stated): on every facade kind deferReply() without flags captures
\* a response that carries no flags field, and deferReply({flags: f})
\* captures a response whose data.flags is f.
C14_DeferReplyCarriesGivenFlags ==
    \A i \in CallIds :
        calls[i].method = "deferReply" =>
            Get(Get(calls[i].response, "data"), "flags") = Get(calls[i].arg, "flags")

\* the handler asked resolver method fn
Asked(fn) == query # NoQuery /\ query.fn = fn

\* the leaves under a node, in pre-order: the children of an action row in
\* order, the child of a label wrapper unwrapped
RECURSIVE LeavesUnder(_)
LeavesUnder(node) ==
    IF "components" \in DOMAIN node
    THEN LET RECURSIVE Flatten(_)
             Flatten(children) ==
                 IF children = <<>> THEN <<>>
                 ELSE LeavesUnder(Head(children)) \o Flatten(Tail(children))
         IN Flatten(node.components.arr)
    ELSE IF "component" \in DOMAIN node
         THEN LeavesUnder(node.component)
         ELSE <<node>>

\* the leaves of the submitted tree, in pre-order over the top-level nodes
SubmittedLeaves == LeavesUnder([components |-> interaction.data.components])

\* the positions of the leaves with identifier customId that carry field
LeavesWith(customId, field) ==
    {n \in 1..Len(SubmittedLeaves) :
        /\ SubmittedLeaves[n].custom_id = customId
        /\ field \in DOMAIN SubmittedLeaves[n]}

\* the field of the first such leaf, or undefined when there is none
FirstOf(customId, field) ==
    LET W == LeavesWith(customId, field)
    IN IF W = {} THEN Undefined
       ELSE SubmittedLeaves[CHOOSE n \in W : \A k \in W : n <= k][field]

\* C15 (as stated): getTextFieldValue(id) returns the value of the first
\* leaf in pre-order whose custom_id is id and whose value is a string, and
\* getSelectMenuValues(id) the values of the first such leaf that carries an
\* array; a later duplicate is never returned.
C15_FirstMatchInPreOrder ==
    /\ Asked("getTextFieldValue") => query.result = FirstOf(query.customId, "value")
    /\ Asked("getSelectMenuValues") => query.result = FirstOf(query.customId, "values")

\* the identifiers selected in component customId: the values of its first
\* leaf that carries an array, none when there is no such leaf
Selected(customId) ==
    LET values == FirstOf(customId, "values")
    IN IF values = Undefined THEN <<>> ELSE values.arr

\* the identifiers that have an entry in map key of interaction.data.resolved
Known(key) == IF ResolvedMap(key) = Undefined THEN {} ELSE DOMAIN ResolvedMap(key)

\* the entries of map key for those of ids that have one, in the order of ids
RECURSIVE EntriesOf(_, _)
EntriesOf(ids, key) ==
    IF ids = <<>> THEN <<>>
    ELSE (IF Head(ids) \in Known(key) THEN <<ResolvedMap(key)[Head(ids)]>> ELSE <<>>)
         \o EntriesOf(Tail(ids), key)

\* the first of those entries, or undefined when none of ids has one
FirstEntryOf(ids, key) ==
    IF EntriesOf(ids, key) = <<>> THEN Undefined ELSE Head(EntriesOf(ids, key))

\* the identifiers submitted by component customId: its text value when it
\* submitted one, its selection otherwise
Submitted(customId) ==
    IF LeavesWith(customId, "value") # {}
    THEN <<FirstOf(customId, "value").str>>
    ELSE Selected(customId)

\* C16 (as stated): getAttachment(id) returns the first entity obtained by
\* mapping the identifiers submitted by component id through the resolved
\* attachments map, or undefined when none of them resolves, as getRole does
\* with the roles map.
C16_GetAttachmentFirstResolved ==
    Asked("getAttachment") =>
        query.result = FirstEntryOf(Submitted(query.customId), "attachments")

\* every known user among ids paired with its member entry when it has one
RECURSIVE UserOptionsOf(_)
UserOptionsOf(ids) ==
    IF ids = <<>> THEN <<>>
    ELSE (IF Head(ids) \in Known("users")
          THEN <<[user |-> ResolvedMap("users")[Head(ids)],
                  member |-> IF Head(ids) \in Known("members")
                             THEN ResolvedMap("members")[Head(ids)]
                             ELSE Undefined]>>
          ELSE <<>>)
         \o UserOptionsOf(Tail(ids))

\* C17: getRoles(id) returns, in selection order, exactly the entries of the
\* resolved roles map for the selected identifiers of component id that have
\* an entry, dropping the others; getChannels does so with the channels map
\* and getUsers with the users map, each user paired with its member entry
\* when one exists.
C17_PluralResolversDropUnresolved ==
    /\ Asked("getRoles") =>
          query.result = Arr(EntriesOf(Selected(query.customId), "roles"))
    /\ Asked("getChannels") =>
          query.result = Arr(EntriesOf(Selected(query.customId), "channels"))
    /\ Asked("getUsers") =>
          query.result = Arr(UserOptionsOf(Selected(query.customId)))

\* getRoles on a selection of r1 and r2, of which only r1 is a resolved role
C17_Witness ==
    /\ Asked("getRoles")
    /\ Selected(query.customId) = <<"r1", "r2">>
    /\ Known("roles") = {"r1"}
    /\ query.result = Arr(<<RoleEntity("r1")>>)

\* the result that stands for absent: the empty list for the plural
\* resolvers, undefined for the others
Absent(fn) ==
    IF fn \in {"getRoles", "getUsers", "getChannels"} THEN Arr(<<>>) ELSE Undefined

\* no leaf of the submitted tree has identifier customId
NoLeafHas(customId) ==
    \A n \in 1..Len(SubmittedLeaves) : SubmittedLeaves[n].custom_id # customId

\* C18: when the submitted components are empty, or no leaf has custom_id
\* id, every resolver query for id returns its absent result: undefined for
\* getTextFieldValue, getSelectMenuValues, getComponentValue, getRole,
\* getUser, getChannel and getAttachment, the empty list for getRoles,
\* getUsers and getChannels.
C18_MissingComponentIsAbsent ==
    (query # NoQuery /\ NoLeafHas(query.customId)) => query.result = Absent(query.fn)

\* a query for an identifier that no leaf has, on a tree that has leaves
\* and comes with resolved entities
C18_Witness ==
    /\ Asked("getAttachment")
    /\ NoLeafHas(query.customId)
    /\ Len(SubmittedLeaves) >= 2
    /\ Known("attachments") # {}
    /\ query.result = Undefined

\* C19: getSelectMenuValues(id) returns the empty array when the first leaf
\* with custom_id id that carries a values array carries the empty one, and
\* returns undefined exactly when no leaf with custom_id id carries a values
\* array.
C19_EmptySelectionIsNotAbsent ==
    Asked("getSelectMenuValues") =>
        /\ FirstOf(query.customId, "values") = Arr(<<>>) => query.result = Arr(<<>>)
        /\ query.result = Undefined <=> LeavesWith(query.customId, "values") = {}

\* the empty selection is returned although a later leaf with the same
\* identifier carries a non-empty selection
C19_Witness ==
    /\ Asked("getSelectMenuValues")
    /\ query.result = Arr(<<>>)
    /\ Cardinality(LeavesWith(query.customId, "values")) >= 2

\* C20 (as stated): getComponentValue(id) returns the text value of
\* component id if one is present, otherwise its selection values, otherwise
\* undefined.
C20_TextElseSelectionElseAbsent ==
    Asked("getComponentValue") =>
        query.result = IF LeavesWith(query.customId, "value") # {}
                       THEN FirstOf(query.customId, "value")
                       ELSE FirstOf(query.customId, "values")

\* C21 (as stated): a leaf under k >= 1 nested label wrappers, the outermost
\* at top level or inside an action row, is found: getTextFieldValue returns
\* the value of a wrapped text leaf with the queried identifier and
\* getSelectMenuValues the values of a wrapped select leaf.
C21_NestedLeafIsFound ==
    /\ (Asked("getTextFieldValue") /\ LeavesWith(query.customId, "value") # {})
          => query.result = FirstOf(query.customId, "value")
    /\ (Asked("getSelectMenuValues") /\ LeavesWith(query.customId, "values") # {})
          => query.result = FirstOf(query.customId, "values")

\* the custom id of modal data handed to showModal: the custom_id of a
\* finished payload, the customId of the builder behind toJSON()
PassedCustomId(data) ==
    IF "toJSON" \in DOMAIN data THEN data.toJSON.customId ELSE data.custom_id

\* modal data passed as a finished payload or as an object exposing toJSON()
FinishedOrEncodable(data) == "toJSON" \in DOMAIN data \/ "custom_id" \in DOMAIN data

C23_UpdateAcceptsMissingPayload ==
    \A i \in CallIds :
        calls[i].method = "update" =>
            /\ calls[i].outcome = "returned"
            /\ calls[i].response.type = "UpdateMessage"
            /\ IF calls[i].arg = Undefined
               THEN "data" \notin DOMAIN calls[i].response
               ELSE /\ "data" \in DOMAIN calls[i].response
                    /\ calls[i].response.data = calls[i].arg
            /\ (i = Len(calls) => capturedResponse = calls[i].response)

\* update() with data omitted has replaced an earlier response by an
\* UpdateMessage response without data
C23_Witness ==
    /\ kind = "messageComponent"
    /\ Len(calls) = 2
    /\ calls[1].response # Null
    /\ calls[2].method = "update"
    /\ calls[2].arg = Undefined
    /\ capturedResponse = [type |-> "UpdateMessage"]

\* the acknowledgement methods the kind of a facade does not permit
NotPermitted(k, method) ==
    \/ method \in {"update", "deferUpdate"} /\ k # "messageComponent"
    \/ method = "showModal" /\ k = "modalSubmit"

\* C24: a call of update or deferUpdate on a context-menu or modal submit
\* facade, or of showModal on a modal submit facade, throws an error,
\* builds no response and leaves the captured response, and so what
\* getResponse() returns, as it was.
C24_UnpermittedMethodFailsFast ==
    /\ [](\A i \in CallIds :
            NotPermitted(kind, calls[i].method) =>
                /\ calls[i].outcome = "threw"
                /\ calls[i].error # ""
                /\ calls[i].response = Null)
    /\ [][(/\ Len(calls') = Len(calls) + 1
           /\ NotPermitted(kind, calls'[Len(calls')].method))
          => UNCHANGED <<capturedResponse, isDeferred, onAckCalls,
                         sendFollowUpCalls>>]_vars

\* update was called on a facade that does not have it, after a response
\* had been captured, and that response is still the captured one
C24_Witness ==
    /\ kind \in {"userContextMenu", "modalSubmit"}
    /\ Len(calls) = 2
    /\ calls[1].response # Null
    /\ calls[2].method = "update"
    /\ calls[2].outcome = "threw"
    /\ capturedResponse = calls[1].response

\* the response that was captured when call i was made
CapturedBefore(i) ==
    LET W == {j \in 1..(i - 1) : calls[j].response # Null}
    IN IF W = {} THEN Null
       ELSE calls[CHOOSE j \in W : \A k \in W : k <= j].response

\* C28 (as stated): when the follow-up of a reply or editReply on a modal
\* submit facade has failed and no later call has captured a response, the
\* captured response is the one that was captured before that call, not the
\* response whose delivery failed.
C28_FailedFollowUpLeavesStateAsBefore ==
    \A k \in 1..Len(sendFollowUpCalls) :
        LET i == sendFollowUpCalls[k].call
        IN (/\ sendFollowUpCalls[k].settled = "rejected"
            /\ \A j \in (i + 1)..Len(calls) : calls[j].response = Null)
           => capturedResponse = CapturedBefore(i)

\* the latest setter call on the builder, when there is one
LatestSetter == button.setters[Len(button.setters)]

\* C25 (as stated): when setCustomId(c) with non-empty c is the latest
\* setter call on a ButtonBuilder (no setStyle, setURL or setSKUId after it),
\* whatever seed data and setter calls preceded it, toJSON() succeeds and
\* returns a button whose custom_id is c and which has neither url nor
\* sku_id.
C25_SetCustomIdMakesInteractionButton ==
    (/\ button.setters # <<>>
     /\ LatestSetter.name = "setCustomId"
     /\ LatestSetter.arg # Str("")
     /\ button.json # NotSerialised)
    => /\ "value" \in DOMAIN button.json
       /\ "custom_id" \in DOMAIN button.json.value
       /\ button.json.value.custom_id = LatestSetter.arg
       /\ "url" \notin DOMAIN button.json.value
       /\ "sku_id" \notin DOMAIN button.json.value

Bookkeeping == {"_id", "createdAt", "updatedAt"}

\* C26 (as stated): when a set(key, data) succeeds, the record then stored
\* under key holds no field other than those data names and the bookkeeping
\* fields _id, createdAt and updatedAt: whatever other field an earlier
\* record had is gone.
C26_SetOverwritesRecord ==
    [][\A c \in SetCalls :
          (/\ db.ops[c].pc = "updateOne"
           /\ db'.ops[c].pc = "done"
           /\ db'.ops[c].result = [bool |-> TRUE])
          => DOMAIN db'.store[c.key] \subseteq DOMAIN c.arg \cup Bookkeeping]_vars

\* the update calls that have completed
CompletedUpdates == {c \in UpdateCalls : db.ops[c].pc = "done"}

\* C27 (as stated): once two update calls on one key that name disjoint
\* fields have both completed on an initialised database, and nothing was
\* deleted, the stored record holds the value each of them wrote.
C27_ConcurrentUpdatesBothKept ==
    \A c1 \in UpdateCalls, c2 \in UpdateCalls :
        (/\ c1 # c2
         /\ c1.key = c2.key
         /\ DOMAIN c1.arg \cap DOMAIN c2.arg = {}
         /\ {c1, c2} \subseteq CompletedUpdates
         /\ db.initPromise = "fulfilled"
         /\ \A d \in DeleteCalls : db.ops[d].pc = "idle")
        => /\ db.store[c1.key] # NoDoc
           /\ \A f \in DOMAIN c1.arg : Get(db.store[c1.key], f) = c1.arg[f]
           /\ \A f \in DOMAIN c2.arg : Get(db.store[c1.key], f) = c2.arg[f]

\* C29: initializeMongoDB is invoked at most once on an instance, exactly
\* once as soon as any call has been issued, and every call suspended at
\* `await this.initialize()` waits for that one initialisation.
C29_InitialisedAtMostOnce ==
    db # NoDatabase =>
        /\ db.initCalls <= 1
        /\ (Issued # {} => db.initCalls = 1)
        /\ (db.initCalls = 0 <=> db.initPromise = "unset")
        /\ \A c \in DatabaseCalls :
              db.ops[c].pc = "initialize" => db.initPromise # "unset"

\* three calls issued while the one initialisation is still pending
C29_Witness ==
    /\ db # NoDatabase
    /\ db.initPromise = "pending"
    /\ db.initCalls = 1
    /\ Cardinality({c \in DatabaseCalls : db.ops[c].pc = "initialize"}) >= 3
====
